---- MODULE Spec2Model ----
(***************************************************************************)
(* SPECBfield (pyoculus/problems/spec_bfield.py): the field-line ODE       *)
(* problem of one SPEC volume.  The constructor resolves the geometry flag *)
(* and fixes the Poincare-plot metadata; f and f_tangent forward to the    *)
(* Fortran module; convert_coords maps (s, theta, zeta) to a physical      *)
(* point, branching on the geometry.                                       *)
(*                                                                         *)
(* Numbers.  Angles are integers counting quarter turns (pi/2), so that    *)
(* 2*pi is TwoPi = 4 and cos, sin are exact; lengths are integers.  The    *)
(* arithmetic of the model is exact: the rounding of float64 is not        *)
(* modelled.                                                               *)
(***************************************************************************)
EXTENDS Integers, Sequences, FiniteSets, TLC

\* ---------------------------------------------------------------- bounds
\* theta and zeta range over -MaxAngle..MaxAngle quarter turns
MaxAngle == 5
\* the radial coordinate s ranges over 1..MaxS
MaxS == 2
\* rpol and rtor range over 2..MaxRadius
MaxRadius == 3
\* the geometry flag of the equilibrium ranges over 0..MaxFlag
MaxFlag == 4
\* the periodicity law is checked for -MaxK..MaxK turns
MaxK == 2

\* 2 * np.pi, in quarter turns
TwoPi == 4

Angles == -MaxAngle..MaxAngle
Radial == 1..MaxS
Radii == 2..MaxRadius
Flags == 0..MaxFlag

\* ------------------------------------------------- outcomes of a call
Return(v) == [tag |-> "return", val |-> v, exc |-> ""]
ReturnNone == [tag |-> "return_none", val |-> <<>>, exc |-> ""]
Raise(e) == [tag |-> "raise", val |-> <<>>, exc |-> e]

\* no instance (before construction), no argument (before any operation)
Unset == [none |-> "None"]

\* one call made to the Fortran module
OracleCall(fn, args) == [fn |-> fn, args |-> args]

\* ------------------------------------------------- numpy
\* C fmod for a positive divisor: the remainder has the sign of the dividend
fmod(x, y) == IF x >= 0 THEN x % y ELSE -((-x) % y)

\* np.mod: fmod, then moved into the divisor's sign
np_mod_trunc(x, y) == fmod(x, y)
np_mod(x, y) ==
    LET m == fmod(x, y)
    IN  IF m # 0 /\ ((y < 0) # (m < 0)) THEN m + y ELSE m

np_cos(t) ==
    CASE t % TwoPi = 0 -> 1
      [] t % TwoPi = 1 -> 0
      [] t % TwoPi = 2 -> -1
      [] t % TwoPi = 3 -> 0

np_sin(t) ==
    CASE t % TwoPi = 0 -> 0
      [] t % TwoPi = 1 -> 1
      [] t % TwoPi = 2 -> 0
      [] t % TwoPi = 3 -> -1

\* ------------------------------------------------- the Fortran module
\* Three stand-ins for the field oracle: "const" answers a fixed tuple,
\* "echo" answers its state argument, "range" fails outside the volume
\* (s > 1) and answers a value that depends on every argument inside it.
Stubs == {"const", "echo", "range"}
OracleError == "OracleEvaluationError"

get_bfield(fm, zeta, st) ==
    CASE fm = "const" -> Return(<<1, 2>>)
      [] fm = "echo" -> Return(st)
      [] fm = "range" ->
            IF st[1] > 1 THEN Raise(OracleError)
            ELSE Return(<<st[1] + zeta, st[2] - zeta>>)

get_bfield_tangent(fm, zeta, st) ==
    CASE fm = "const" -> Return(<<1, 2, 3, 4, 5, 6>>)
      [] fm = "echo" -> Return(st)
      [] fm = "range" ->
            IF st[1] > 1 THEN Raise(OracleError)
            ELSE Return(<<st[1] + zeta, st[2] - zeta, st[3], st[4], st[5], st[6]>>)

get_xyz(fm, stz) ==
    CASE fm = "const" -> Return(<<5, 0, 0>>)
      [] fm = "echo" -> Return(stz)
      [] fm = "range" ->
            IF stz[1] > 1 THEN Raise(OracleError)
            ELSE Return(<<stz[1] + 3, stz[3], stz[2] + 1>>)

\* ------------------------------------------------- SPECProblem.__init__
SPECProblem_init(data, fm) ==
    [Igeometry |-> data.Igeometry, rpol |-> data.rpol, rtor |-> data.rtor,
     fortran_module |-> fm]

\* ------------------------------------------------- SPECBfield.__init__
Plot(type, xlabel, ylabel) ==
    [poincare_plot_type |-> type, poincare_plot_xlabel |-> xlabel,
     poincare_plot_ylabel |-> ylabel]

SPECBfield_init_swapped(data, fm) ==
    LET base == SPECProblem_init(data, fm) @@ [problem_size |-> 2]
    IN  IF base.Igeometry = 1
        THEN [self |-> base @@ Plot("yx", "$\\theta$", "R"), out |-> ReturnNone]
        ELSE IF base.Igeometry = 2
        THEN [self |-> base @@ Plot("RZ", "R(m)", "Z(m)"), out |-> ReturnNone]
        ELSE IF base.Igeometry = 3
        THEN [self |-> base @@ Plot("RZ", "X(m)", "Y(m)"), out |-> ReturnNone]
        ELSE [self |-> base, out |-> Raise("ValueError: Unknown Igeometry!")]

SPECBfield_init_default(data, fm) ==
    LET base == SPECProblem_init(data, fm) @@ [problem_size |-> 2]
    IN  IF base.Igeometry = 1
        THEN [self |-> base @@ Plot("yx", "$\\theta$", "R"), out |-> ReturnNone]
        ELSE IF base.Igeometry = 2
        THEN [self |-> base @@ Plot("RZ", "X(m)", "Y(m)"), out |-> ReturnNone]
        ELSE [self |-> base @@ Plot("RZ", "R(m)", "Z(m)"), out |-> ReturnNone]

SPECBfield_init(data, fm) ==
    LET base == SPECProblem_init(data, fm) @@ [problem_size |-> 2]
    IN  IF base.Igeometry = 1
        THEN [self |-> base @@ Plot("yx", "$\\theta$", "R"), out |-> ReturnNone]
        ELSE IF base.Igeometry = 2
        THEN [self |-> base @@ Plot("RZ", "X(m)", "Y(m)"), out |-> ReturnNone]
        ELSE IF base.Igeometry = 3
        THEN [self |-> base @@ Plot("RZ", "R(m)", "Z(m)"), out |-> ReturnNone]
        ELSE [self |-> base, out |-> Raise("ValueError: Unknown Igeometry!")]

\* ------------------------------------------------- SPECBfield.f
\* A method answers [self, out, calls, branch]: the instance's attributes
\* after the call, the outcome, the calls made to the Fortran module, and
\* the line of the geometry test whose branch returned (0: none).
f_wrapped(this, zeta, st, arg1) ==
    [self |-> this,
     out |-> get_bfield(this.fortran_module, np_mod(zeta, TwoPi), st),
     calls |-> <<OracleCall("get_bfield", <<np_mod(zeta, TwoPi), st>>)>>,
     branch |-> 0]

f(this, zeta, st, arg1) ==
    [self |-> this,
     out |-> get_bfield(this.fortran_module, zeta, st),
     calls |-> <<OracleCall("get_bfield", <<zeta, st>>)>>,
     branch |-> 0]

\* ------------------------------------------------- SPECBfield.f_tangent
f_tangent_fallback(this, zeta, st, arg1) ==
    LET r == get_bfield_tangent(this.fortran_module, zeta, st)
    IN  [self |-> this,
         out |-> IF r.tag = "raise" THEN Return(<<0, 0, 0, 0, 0, 0>>) ELSE r,
         calls |-> <<OracleCall("get_bfield_tangent", <<zeta, st>>)>>,
         branch |-> 0]

f_tangent(this, zeta, st, arg1) ==
    [self |-> this,
     out |-> get_bfield_tangent(this.fortran_module, zeta, st),
     calls |-> <<OracleCall("get_bfield_tangent", <<zeta, st>>)>>,
     branch |-> 0]

\* ------------------------------------------------- SPECBfield.convert_coords
\* the slab point: x = R, y = theta, z = zeta
slab_point_rawzeta(this, xyz, stz) ==
    <<xyz[1], np_mod(stz[2], TwoPi) * this.rpol, stz[3] * this.rtor>>

slab_point(this, xyz, stz) ==
    <<xyz[1], np_mod(stz[2], TwoPi) * this.rpol, np_mod(stz[3], TwoPi) * this.rtor>>

\* the cylindrical point: x = r cos theta, y = zeta * rtor, z = r sin theta
cyl_point_wrapped(this, xyz, stz) ==
    <<xyz[1] * np_cos(stz[2]), np_mod(stz[3], TwoPi) * this.rtor,
      xyz[1] * np_sin(stz[2])>>

cyl_point(this, xyz, stz) ==
    <<xyz[1] * np_cos(stz[2]), stz[3] * this.rtor, xyz[1] * np_sin(stz[2])>>

\* the toroidal point: what get_xyz answered
tor_point_wrapped(this, xyz, stz) ==
    <<xyz[1], np_mod(xyz[2], TwoPi), xyz[3]>>

tor_point(this, xyz, stz) == xyz

convert_coords_exchanged(this, stz) ==
    LET xyz == get_xyz(this.fortran_module, stz)
        calls == <<OracleCall("get_xyz", <<stz>>)>>
    IN  IF xyz.tag = "raise"
        THEN [self |-> this, out |-> xyz, calls |-> calls, branch |-> 0]
        ELSE IF this.Igeometry = 1
        THEN [self |-> this, out |-> Return(slab_point(this, xyz.val, stz)),
              calls |-> calls, branch |-> 66]
        ELSE IF this.Igeometry = 3
        THEN [self |-> this, out |-> Return(cyl_point(this, xyz.val, stz)),
              calls |-> calls, branch |-> 76]
        ELSE IF this.Igeometry = 2
        THEN [self |-> this, out |-> Return(tor_point(this, xyz.val, stz)),
              calls |-> calls, branch |-> 82]
        ELSE [self |-> this, out |-> ReturnNone, calls |-> calls, branch |-> 0]

convert_coords(this, stz) ==
    LET xyz == get_xyz(this.fortran_module, stz)
        calls == <<OracleCall("get_xyz", <<stz>>)>>
    IN  IF xyz.tag = "raise"
        THEN [self |-> this, out |-> xyz, calls |-> calls, branch |-> 0]
        ELSE IF this.Igeometry = 1
        THEN [self |-> this, out |-> Return(slab_point(this, xyz.val, stz)),
              calls |-> calls, branch |-> 66]
        ELSE IF this.Igeometry = 2
        THEN [self |-> this, out |-> Return(cyl_point(this, xyz.val, stz)),
              calls |-> calls, branch |-> 76]
        ELSE IF this.Igeometry = 3
        THEN [self |-> this, out |-> Return(tor_point(this, xyz.val, stz)),
              calls |-> calls, branch |-> 82]
        ELSE [self |-> this, out |-> ReturnNone, calls |-> calls, branch |-> 0]

\* ------------------------------------------------- state
VARIABLES
    spec_data,       \* the equilibrium: [Igeometry, rpol, rtor]
    fortran_module,  \* the field oracle in use
    ctor,            \* "pending", "returned" (the caller holds the problem), "raised"
    self,            \* the instance's attributes
    last             \* the last operation: [op, args, out, calls, branch]
                     \* (args: the arguments by parameter name)

vars == <<spec_data, fortran_module, ctor, self, last>>

States2 == Radial \X {0, 1}
States6 == {<<st[1], st[2], 1, 0, 0, 1>> : st \in States2}
Zetas == {-MaxAngle, -1, 0, 1, TwoPi, MaxAngle}
Arg1s == {"None", "arg"}
Stz == Radial \X Angles \X Zetas

Init ==
    /\ spec_data \in [Igeometry : Flags, rpol : Radii, rtor : Radii]
    /\ fortran_module \in Stubs
    /\ ctor = "pending"
    /\ self = Unset
    /\ last = [op |-> "none", args |-> Unset, out |-> ReturnNone, calls |-> <<>>,
               branch |-> 0]

Done(op, args, r) ==
    /\ self' = r.self
    /\ last' = [op |-> op, args |-> args, out |-> r.out, calls |-> r.calls,
                branch |-> r.branch]
    /\ UNCHANGED <<spec_data, fortran_module, ctor>>

Construct ==
    /\ ctor = "pending"
    /\ LET r == SPECBfield_init(spec_data, fortran_module)
       IN  /\ self' = r.self
           /\ ctor' = IF r.out.tag = "raise" THEN "raised" ELSE "returned"
           /\ last' = [op |-> "__init__", args |-> [spec_data |-> spec_data], out |-> r.out,
                       calls |-> <<>>, branch |-> 0]
    /\ UNCHANGED <<spec_data, fortran_module>>

Call_f ==
    \E zeta \in Zetas, st \in States2, arg1 \in Arg1s :
        Done("f", [zeta |-> zeta, st |-> st, arg1 |-> arg1], f(self, zeta, st, arg1))

Call_f_tangent ==
    \E zeta \in Zetas, st \in States6, arg1 \in Arg1s :
        Done("f_tangent", [zeta |-> zeta, st |-> st, arg1 |-> arg1], f_tangent(self, zeta, st, arg1))

Call_convert_coords ==
    \E stz \in Stz :
        Done("convert_coords", [stz |-> stz], convert_coords(self, stz))

\* The caller holds the problem only when __init__ returned.
Next ==
    \/ Construct
    \/ ctor = "returned" /\ Call_f
    \/ ctor = "returned" /\ Call_f_tangent
    \/ ctor = "returned" /\ Call_convert_coords

Spec == Init /\ [][Next]_vars

\* Python allocates the instance before __init__ runs and keeps it when
\* __init__ raises: here the methods run on the instance whatever the
\* outcome of __init__, which is how a call meets an unresolved geometry.
NextUnresolved ==
    \/ Construct
    \/ ctor # "pending" /\ Call_f
    \/ ctor # "pending" /\ Call_f_tangent
    \/ ctor # "pending" /\ Call_convert_coords

SpecUnresolved == Init /\ [][NextUnresolved]_vars

\* ================================================= properties
Methods == {"f", "f_tangent", "convert_coords"}
Resolved == {1, 2, 3}
PlotAttrs == {"poincare_plot_type", "poincare_plot_xlabel", "poincare_plot_ylabel"}

\* the table of the geometry classifier: flag -> (plot type, xlabel, ylabel)
PlotRow(g) ==
    CASE g = 1 -> <<"yx", "$\\theta$", "R">>
      [] g = 2 -> <<"RZ", "X(m)", "Y(m)">>
      [] g = 3 -> <<"RZ", "R(m)", "Z(m)">>

PlotOf(s) == <<s.poincare_plot_type, s.poincare_plot_xlabel, s.poincare_plot_ylabel>>

\* what the Fortran module answers to the arguments the caller gave
OracleOutcome(l) ==
    CASE l.op = "f" -> get_bfield(fortran_module, l.args.zeta, l.args.st)
      [] l.op = "f_tangent" -> get_bfield_tangent(fortran_module, l.args.zeta, l.args.st)
      [] l.op = "convert_coords" -> get_xyz(fortran_module, l.args.stz)

\* convert_coords has run on geometry g and the oracle answered
Converted(g) ==
    /\ last.op = "convert_coords"
    /\ self.Igeometry = g
    /\ OracleOutcome(last).tag = "return"

\* C1: constructing with a geometry flag 1, 2 or 3 returns a problem whose
\* plot type and axis labels are the table row of that flag, and whose
\* problem_size is 2.
C1_ConstructionYieldsRow ==
    (ctor # "pending" /\ spec_data.Igeometry \in Resolved) =>
        /\ ctor = "returned"
        /\ PlotAttrs \subseteq DOMAIN self
        /\ self.Igeometry = spec_data.Igeometry
        /\ PlotOf(self) = PlotRow(spec_data.Igeometry)
        /\ self.problem_size = 2

C1_Witness ==
    /\ last.op = "__init__"
    /\ ctor = "returned"
    /\ spec_data.Igeometry = 2
    /\ PlotOf(self) = <<"RZ", "X(m)", "Y(m)">>

\* C2: constructing with a geometry flag outside {1,2,3} raises ValueError
\* "Unknown Igeometry!": the caller gets no problem, and no plot type or axis
\* label has been assigned.
C2_UnknownGeometryAborts ==
    (ctor # "pending" /\ spec_data.Igeometry \notin Resolved) =>
        /\ ctor = "raised"
        /\ last.op = "__init__"
        /\ last.out = Raise("ValueError: Unknown Igeometry!")
        /\ PlotAttrs \cap DOMAIN self = {}

C2_Witness ==
    /\ ctor = "raised"
    /\ spec_data.Igeometry = 0
    /\ last.out.tag = "raise"

\* C3: f and f_tangent are pass-throughs: the outcome is what get_bfield
\* (get_bfield_tangent) answers to (zeta, st), whatever arg1 is, and the
\* Fortran module is called once with zeta and st as given.
C3_RhsPassThrough ==
    /\ last.op = "f" =>
          /\ last.out = get_bfield(fortran_module, last.args.zeta, last.args.st)
          /\ last.calls = <<OracleCall("get_bfield", <<last.args.zeta, last.args.st>>)>>
    /\ last.op = "f_tangent" =>
          /\ last.out = get_bfield_tangent(fortran_module, last.args.zeta, last.args.st)
          /\ last.calls =
                <<OracleCall("get_bfield_tangent", <<last.args.zeta, last.args.st>>)>>

C3_Witness ==
    /\ last.op = "f"
    /\ fortran_module = "range"
    /\ last.args = [zeta |-> MaxAngle, st |-> <<1, 1>>, arg1 |-> "arg"]
    /\ last.out = Return(<<1 + MaxAngle, 1 - MaxAngle>>)

\* C4: in slab geometry convert_coords(s0, theta0, zeta0) returns
\* (R0, (theta0 mod 2pi) * rpol, (zeta0 mod 2pi) * rtor), R0 the first
\* component of what get_xyz answered, and get_xyz is called once with the
\* unwrapped triple.
C4_SlabConversion ==
    Converted(1) =>
        LET stz == last.args.stz
            R0 == OracleOutcome(last).val[1]
        IN  /\ last.out = Return(<<R0, (stz[2] % TwoPi) * self.rpol,
                                   (stz[3] % TwoPi) * self.rtor>>)
            /\ last.calls = <<OracleCall("get_xyz", <<stz>>)>>

C4_Witness ==
    /\ Converted(1)
    /\ fortran_module = "const"
    /\ self.rpol = 2 /\ self.rtor = 3
    /\ last.args.stz = <<1, TwoPi + 1, -1>>
    /\ last.out = Return(<<5, 2, 9>>)

\* C5: in cylindrical geometry convert_coords(s0, theta0, zeta0) returns
\* (R0 cos theta0, zeta0 * rtor, R0 sin theta0): zeta0 is used raw.
C5_CylindricalConversion ==
    Converted(2) =>
        LET stz == last.args.stz
            R0 == OracleOutcome(last).val[1]
        IN  last.out = Return(<<R0 * np_cos(stz[2]), stz[3] * self.rtor,
                                R0 * np_sin(stz[2])>>)

C5_Witness ==
    /\ Converted(2)
    /\ fortran_module = "range"
    /\ last.args.stz = <<1, 1, TwoPi>>
    /\ last.out = Return(<<0, TwoPi * self.rtor, 4>>)
    /\ last.out.val[2] # (0 % TwoPi) * self.rtor

\* C6: in toroidal geometry convert_coords returns what get_xyz answered,
\* unmodified.
C6_ToroidalPassThrough ==
    Converted(3) => last.out = OracleOutcome(last)

C6_Witness ==
    /\ Converted(3)
    /\ fortran_module = "echo"
    /\ last.args.stz = <<2, -1, MaxAngle>>
    /\ last.out = Return(<<2, -1, MaxAngle>>)

\* C7: when the Fortran module fails during f, f_tangent or convert_coords,
\* the call raises that failure: the module was called once, no value is
\* returned in its place, and the problem's attributes are as before.
C7_OracleFailurePropagates ==
    [][(last'.op \in Methods /\ OracleOutcome(last').tag = "raise") =>
          /\ last'.out = Raise(OracleError)
          /\ Len(last'.calls) = 1
          /\ self' = self
          /\ ctor' = ctor]_vars

C7_Witness ==
    /\ last.op = "f_tangent"
    /\ fortran_module = "range"
    /\ last.args.st[1] = 2
    /\ last.out = Raise(OracleError)

\* w is x mod 2pi: it lies in [0, 2pi) and differs from x by whole turns
IsWrapOf(w, x) ==
    /\ w \in 0..(TwoPi - 1)
    /\ \E q \in -MaxAngle..MaxAngle : x = q * TwoPi + w

BranchGeometry(line) ==
    CASE line = 66 -> 1
      [] line = 76 -> 2
      [] line = 82 -> 3
      [] OTHER -> 0

\* C9: once constructed, the problem keeps its geometry, plot metadata,
\* radii and problem_size through every call of f, f_tangent and
\* convert_coords; the plot metadata is the table row of the geometry, and
\* the branch convert_coords takes is the branch of that same geometry.
C9_GeometryFixedAndConsistent ==
    [][ctor = "returned" =>
          /\ ctor' = "returned"
          /\ self' = self
          /\ self'.Igeometry = spec_data.Igeometry
          /\ self'.Igeometry \in Resolved
          /\ PlotOf(self') = PlotRow(self'.Igeometry)
          /\ (last'.op = "convert_coords" /\ last'.out.tag # "raise") =>
                /\ BranchGeometry(last'.branch) = self'.Igeometry
                /\ PlotRow(BranchGeometry(last'.branch)) = PlotOf(self')]_vars

C9_Witness ==
    /\ ctor = "returned"
    /\ last.op = "convert_coords"
    /\ self.Igeometry = 2
    /\ last.branch = 76
    /\ PlotOf(self) = PlotRow(2)

\* C10: convert_coords called while the geometry flag is not 1, 2 or 3
\* raises; it never returns.
C10_UnresolvedFailsLoudly ==
    (last.op = "convert_coords" /\ self.Igeometry \notin Resolved) =>
        last.out.tag = "raise"

====
